---- MODULE Spec2Model ----
(***************************************************************************)
(* Model of the pr0gramm-kv service: a versioned key-value store over one  *)
(* PostgreSQL table (kv_data) with three HTTP handlers.                    *)
(*                                                                         *)
(* Every handler runs one statement inside transaction(): Beginx, the      *)
(* statement, then the deferred Commit/Rollback.  The handlers of several  *)
(* requests run in parallel, so each request is modelled as three steps    *)
(* (arrival up to Beginx, the statement, the deferred end and the answer)  *)
(* that interleave with the steps of the other requests.                   *)
(*                                                                         *)
(* The database runs at its default isolation level (READ COMMITTED) and   *)
(* is available: Beginx, the statements and Commit raise no error of their *)
(* own.  INSERT ... ON CONFLICT DO UPDATE takes the row lock of the        *)
(* (token, key) it touches and holds it until the transaction ends; a      *)
(* second statement on that row waits for it and then sees the committed   *)
(* row.  The created column is written by every Put and read by nothing;   *)
(* it is left out of the rows.                                             *)
(***************************************************************************)
EXTENDS Integers, FiniteSets, Sequences, TLC

\* ---------------------------------------------------------------- bounds
\* The largest version a request of the documented interface leads to.
MaxVersion == 2

\* ------------------------------------------------------------- constants
maxValueSize == 262144

\* Two requests are served at a time, one per client connection.
Clients == {"c1", "c2"}
NoClient == "none"

Tokens == {"t1"}
Keys == {"k1"}
NilToken == ""
\* Every token and key some request of the model names.
AllTokens == {"t1", "t2"}
AllKeys == {"k1", "k2", "k?", "k"}

\* The version path segment of a write is any int: it carries no validate tag.
PostVersions == (0 - 1)..(MaxVersion - 1)
\* The versions a client that follows the documented interface sends with a
\* write: the non-negative ones.
NatVersions == 0..(MaxVersion - 1)
\* The version path segment of a pinned read, before validation.
ReadVersions == 0..MaxVersion

\* A payload is its content and its length in bytes.
NoPayload == [data |-> "", len |-> 0]
Bodies == {[data |-> "a", len |-> 1], [data |-> "b", len |-> 1]}
\* r.ContentLength: the declared length, -1 when it is unknown.
ContentLengths(body) == {body.len, maxValueSize + 1}

\* ---------------------------------------------------------------- errors
\* An error is its cause and the message it was last wrapped with.
NilErr == [cause |-> "nil", msg |-> ""]
ErrNoSuchKey == [cause |-> "ErrNoSuchKey", msg |-> ""]
ErrVersionConflict == [cause |-> "ErrVersionConflict", msg |-> ""]
ErrValueTooLarge == [cause |-> "ErrValueTooLarge", msg |-> ""]
ErrNoRows == [cause |-> "sql.ErrNoRows", msg |-> ""]
ErrBadRequest == [cause |-> "ErrBadRequest", msg |-> ""]
ErrUnexpectedEOF == [cause |-> "io.ErrUnexpectedEOF", msg |-> ""]

\* errors.WithMessage: nil stays nil, any other error keeps its cause.
WithMessage(err, msg) ==
    IF err = NilErr THEN NilErr ELSE [cause |-> err.cause, msg |-> msg]

\* httputil.ErrorMapping, with the defaults of the error writer.
StatusOf(err) ==
    CASE err.cause = "nil" -> 200
      [] err.cause = "ErrNoSuchKey" -> 404
      [] err.cause = "ErrVersionConflict" -> 409
      [] err.cause = "ErrValueTooLarge" -> 413
      [] err.cause = "ErrBadRequest" -> 400
      [] OTHER -> 500

\* ----------------------------------------------------------------- state
VARIABLES
    kv_data,   \* the table: a set of rows [token, key, version, payload]
    lock,      \* row lock of each (token, key): the client holding it
    pc,        \* where each client's request stands
    req,       \* the request each client last sent
    tx,        \* what the statement of the request's transaction returned
    resp,      \* the answer to the request
    race,      \* history of each write: what it raced with while in flight
    succeeded, \* history: the (token, key) pairs a Put has succeeded on
    session    \* history of each client: its lookup and the writes since

vars == <<kv_data, lock, pc, req, tx, resp, race, succeeded, session>>

\* Mutant of SelectRow: the statements match the token only.
SelectRow_TokenOnly(table, token, key) ==
    {row \in table : row.token = token}

\* SELECT ... FROM kv_data WHERE token=$1 AND key=$2
SelectRow(table, token, key) ==
    {row \in table : row.token = token /\ row.key = key}

NoRequest ==
    [op |-> "none", token |-> NilToken, key |-> "", version |-> 0,
     contentLength |-> 0, body |-> NoPayload, payload |-> NoPayload]

NoTx ==
    [err |-> NilErr, updatedVersion |-> 0, write |-> {},
     value |-> NoPayload, version |-> 0]

\* The outer handler of Routing sets this header on every response first.
DefaultCache == "no-cache, private"
ImmutableCache == "public, max-age=31536000, immutable"

NilResult == [nil |-> TRUE, version |-> 0, value |-> NoPayload]
ResultValues(version, value) == [nil |-> FALSE, version |-> version, value |-> value]

\* A key is a string; these are the characters of the keys of the model.
KeyChars(key) ==
    CASE key = "k1" -> <<"k", "1">>
      [] key = "k2" -> <<"k", "2">>
      [] key = "k?" -> <<"k", "?">>
      [] key = "k" -> <<"k">>
      [] OTHER -> <<>>

\* The Location header of the redirect,
\* fmt.Sprintf("%s/token/%s/key/%s/version/%d", prefix, token, key, version):
\* the pieces are written one after the other as they are.  The prefix is
\* that of a proxy in front of the service, which removes it again from the
\* request that follows the redirect; the model has no proxy.
LocationOf(token, key, version) ==
    <<"/token/", token, "/key/">> \o KeyChars(key)
        \o <<"/version/", ToString(version)>>
NoLocation == <<>>

\* History of a write in flight: whether the stored version was the expected
\* one when the request arrived (no row for an expected version of 0), how
\* many writes with the same expected version other requests committed to
\* its key since (2 stands for two or more), and whether a write with
\* another expected version was committed to its key since.
NoRace == [fresh |-> FALSE, same |-> 0, other |-> FALSE]

Fresh(rows, version) ==
    \/ rows = {} /\ version = 0
    \/ version >= 1 /\ \E row \in rows : row.version = version

NoResp ==
    [result |-> NilResult, err |-> NilErr, status |-> 0,
     cache |-> "", location |-> NoLocation]

\* History of a client that looks a record up and then writes it: "none"
\* when its request does not expect a version it has just looked up, "clean"
\* from the lookup (the SELECT of KVStore.Get) on, "dirty" once another
\* client's write was committed to the key after the lookup.
NoSession == "none"

\* The version the last answer told client c its record has, 0 for none.
Learnt(c) ==
    IF pc[c] = "done" /\ req[c].op = "GetValue" /\ resp[c].status = 307
    THEN tx[c].version
    ELSE IF pc[c] = "done" /\ req[c].op = "GetValueVersion"
            /\ ~resp[c].result.nil
    THEN resp[c].result.version
    ELSE 0

\* Request r of client c is a write that expects the version the client has
\* just looked up.
Follows(c, r) ==
    /\ r.op = "PostValue"
    /\ r.token = req[c].token /\ r.key = req[c].key
    /\ r.version >= 1 /\ r.version = Learnt(c)

Init ==
    /\ kv_data = {}
    /\ lock = [r \in AllTokens \X AllKeys |-> NoClient]
    /\ pc = [c \in Clients |-> "idle"]
    /\ req = [c \in Clients |-> NoRequest]
    /\ tx = [c \in Clients |-> NoTx]
    /\ resp = [c \in Clients |-> NoResp]
    /\ race = [c \in Clients |-> NoRace]
    /\ succeeded = {}
    /\ session = [c \in Clients |-> NoSession]

\* ------------------------------------------------------ request handling
\* The path tags of requestValues: token and key are required everywhere,
\* the version is validated (required,min=1) by the pinned read only.
ValidRequest(r) ==
    /\ r.token # NilToken
    /\ r.key # ""
    /\ (r.op = "GetValueVersion" => r.version >= 1)

\* ioutil.ReadAll(r.Body): the server hands the handler at most the declared
\* number of bytes and fails the read when the body ends before them.
ReadAllErr(contentLength, body) ==
    IF contentLength >= 0 /\ contentLength > body.len
    THEN ErrUnexpectedEOF ELSE NilErr

ReadAll(contentLength, body) ==
    IF contentLength >= 0 /\ contentLength < body.len
    THEN [data |-> body.data, len |-> contentLength]
    ELSE body

Respond(c, result, err, status, cache, location) ==
    /\ pc' = [pc EXCEPT ![c] = "done"]
    /\ resp' = [resp EXCEPT ![c] =
                  [result |-> result, err |-> err, status |-> status,
                   cache |-> cache, location |-> location]]

\* A request arrives: the previous answer of the client is forgotten.
Arrive(c, r) ==
    /\ req' = [req EXCEPT ![c] = r]
    /\ tx' = [tx EXCEPT ![c] = NoTx]

\* The request is answered before it reaches the store.
Reject(c, r, err) ==
    /\ Arrive(c, r)
    /\ Respond(c, NilResult, err, StatusOf(err), DefaultCache, NoLocation)
    /\ race' = [race EXCEPT ![c] = NoRace]
    /\ session' = [session EXCEPT ![c] = NoSession]
    /\ UNCHANGED <<kv_data, lock, succeeded>>

\* The request reaches the store: transaction() begins.
Begin(c, r) ==
    /\ Arrive(c, r)
    /\ pc' = [pc EXCEPT ![c] = "begun"]
    /\ resp' = [resp EXCEPT ![c] = NoResp]
    /\ race' = [race EXCEPT ![c] =
                  IF r.op = "PostValue"
                  THEN [NoRace EXCEPT !.fresh =
                          Fresh(SelectRow(kv_data, r.token, r.key), r.version)]
                  ELSE NoRace]
    /\ session' = [session EXCEPT ![c] = IF Follows(c, r) THEN @ ELSE NoSession]
    /\ UNCHANGED <<kv_data, lock, succeeded>>

\* Mutant of PostValueOf: a declared length of exactly maxValueSize is
\* rejected as too large.
PostValueOf_Inclusive(c, token, key, version, contentLength, body) ==
    LET r == [op |-> "PostValue", token |-> token, key |-> key,
              version |-> version, contentLength |-> contentLength,
              body |-> body, payload |-> NoPayload]
    IN  /\ pc[c] \in {"idle", "done"}
        /\ IF ~ValidRequest(r)
           THEN Reject(c, r, ErrBadRequest)
           ELSE IF contentLength >= maxValueSize
           THEN Reject(c, r, ErrValueTooLarge)
           ELSE IF ReadAllErr(contentLength, body) # NilErr
           THEN Reject(c, r, WithMessage(ReadAllErr(contentLength, body),
                                         "reading request body"))
           ELSE Begin(c, [r EXCEPT !.payload = ReadAll(contentLength, body)])

\* API.PostValue up to the Beginx of KVStore.Put.
PostValueOf(c, token, key, version, contentLength, body) ==
    LET r == [op |-> "PostValue", token |-> token, key |-> key,
              version |-> version, contentLength |-> contentLength,
              body |-> body, payload |-> NoPayload]
    IN  /\ pc[c] \in {"idle", "done"}
        /\ IF ~ValidRequest(r)
           THEN Reject(c, r, ErrBadRequest)
           ELSE IF contentLength > maxValueSize
           THEN Reject(c, r, ErrValueTooLarge)
           ELSE IF ReadAllErr(contentLength, body) # NilErr
           THEN Reject(c, r, WithMessage(ReadAllErr(contentLength, body),
                                         "reading request body"))
           ELSE Begin(c, [r EXCEPT !.payload = ReadAll(contentLength, body)])

PostValue(c) ==
    \E token \in Tokens, key \in Keys, version \in PostVersions, body \in Bodies :
        \E contentLength \in ContentLengths(body) :
            PostValueOf(c, token, key, version, contentLength, body)

\* API.PostValue for the writes of the documented interface.
PostValueNat(c) ==
    \E token \in Tokens, key \in Keys, version \in NatVersions, body \in Bodies :
        \E contentLength \in ContentLengths(body) :
            PostValueOf(c, token, key, version, contentLength, body)

\* API.GetValueVersion up to the Beginx of KVStore.Get.
GetValueVersionOf(c, token, key, version) ==
    LET r == [op |-> "GetValueVersion", token |-> token, key |-> key,
              version |-> version, contentLength |-> 0,
              body |-> NoPayload, payload |-> NoPayload]
    IN  /\ pc[c] \in {"idle", "done"}
        /\ IF ~ValidRequest(r)
           THEN Reject(c, r, ErrBadRequest)
           ELSE Begin(c, r)

GetValueVersion(c) ==
    \E token \in Tokens, key \in Keys, version \in ReadVersions :
        GetValueVersionOf(c, token, key, version)

\* API.GetValue up to the Beginx of KVStore.Get.
GetValueOf(c, token, key) ==
    LET r == [op |-> "GetValue", token |-> token, key |-> key,
              version |-> 0, contentLength |-> 0,
              body |-> NoPayload, payload |-> NoPayload]
    IN  /\ pc[c] \in {"idle", "done"}
        /\ IF ~ValidRequest(r)
           THEN Reject(c, r, ErrBadRequest)
           ELSE Begin(c, r)

GetValue(c) ==
    \E token \in Tokens, key \in Keys : GetValueOf(c, token, key)

\* ------------------------------------------------------------ the store
InFlight(c) == pc[c] \in {"begun", "executed"}

\* Mutant of Excluded: the proposed row keeps the expected version.
Excluded_SameVersion(token, key, value, version) ==
    [token |-> token, key |-> key, version |-> version, payload |-> value]

\* VALUES ($1, $2, $3+1, $4, $5): the row the statement proposes (EXCLUDED).
Excluded(token, key, value, version) ==
    [token |-> token, key |-> key, version |-> version + 1, payload |-> value]

\* Mutant of DoUpdateWhere: the DO UPDATE branch has no condition.
DoUpdateWhere_Always(row, version) == TRUE

\* Mutant of DoUpdateWhere: the condition has lost its version comparison.
DoUpdateWhere_ZeroOnly(row, version) == version = 0

\* WHERE (kv_data.version=$3 OR $3=0) of the DO UPDATE branch.
DoUpdateWhere(row, version) ==
    row.version = version \/ version = 0

\* Mutant of Upsert: a plain UPDATE, nothing is inserted for a new key.
Upsert_UpdateOnly(table, token, key, value, version) ==
    {[token |-> row.token, key |-> row.key, version |-> version + 1,
      payload |-> value] :
        row \in {x \in SelectRow(table, token, key) :
                    x.version = version \/ version = 0}}

\* The upsert of KVStore.Put against the committed table: the rows it
\* writes, none when the DO UPDATE condition rejects the existing row.
Upsert(table, token, key, value, version) ==
    LET existing == SelectRow(table, token, key)
    IN  IF existing = {}
        THEN {Excluded(token, key, value, version)}
        ELSE IF \A row \in existing : DoUpdateWhere(row, version)
        THEN {Excluded(token, key, value, version)}
        ELSE {}

\* tx.Get of KVStore.Put: run the upsert, scan RETURNING kv_data.version;
\* sql.ErrNoRows becomes ErrVersionConflict.
PutErr(written) ==
    IF written = {} THEN ErrVersionConflict ELSE NilErr

\* Mutant of PutExec: the statement does not wait for the row lock, it
\* decides on the committed row while another write to it is pending.
PutExec_NoLock(c) ==
    LET r == req[c]
        written == Upsert(kv_data, r.token, r.key, r.payload, r.version)
    IN  /\ pc[c] = "begun"
        /\ r.op = "PostValue"
        /\ lock' = [lock EXCEPT ![<<r.token, r.key>>] = c]
        /\ tx' = [tx EXCEPT ![c] =
                    [err |-> PutErr(written),
                     updatedVersion |->
                        IF written = {} THEN 0
                        ELSE (CHOOSE row \in written : TRUE).version,
                     write |-> written,
                     value |-> NoPayload, version |-> 0]]
        /\ pc' = [pc EXCEPT ![c] = "executed"]
        /\ UNCHANGED <<kv_data, req, resp, race, succeeded, session>>

PutExec(c) ==
    LET r == req[c]
        written == Upsert(kv_data, r.token, r.key, r.payload, r.version)
    IN  /\ pc[c] = "begun"
        /\ r.op = "PostValue"
        /\ lock[<<r.token, r.key>>] = NoClient
        /\ lock' = [lock EXCEPT ![<<r.token, r.key>>] = c]
        /\ tx' = [tx EXCEPT ![c] =
                    [err |-> PutErr(written),
                     updatedVersion |->
                        IF written = {} THEN 0
                        ELSE (CHOOSE row \in written : TRUE).version,
                     write |-> written,
                     value |-> NoPayload, version |-> 0]]
        /\ pc' = [pc EXCEPT ![c] = "executed"]
        /\ UNCHANGED <<kv_data, req, resp, race, succeeded, session>>

\* Mutant of Commits: the deferred function rolls back when the unit of work
\* returned no error and commits otherwise.
Commits_Inverted(err) == err # NilErr

\* The deferred function of transaction(): commit when the unit of work
\* returned no error, roll back otherwise.
Commits(err) == err = NilErr

\* Mutant of AfterTx: the transaction is never committed.
AfterTx_Rollback(table, c) == table

\* The table after the transaction of client c ends.
AfterTx(table, c) ==
    IF Commits(tx[c].err) /\ tx[c].write # {}
    THEN (table \ SelectRow(table, req[c].token, req[c].key)) \cup tx[c].write
    ELSE table

\* History: the write client c commits is noted by every write in flight
\* on its key.
Noted(c, d) ==
    IF d # c /\ InFlight(d) /\ req[d].op = "PostValue"
       /\ req[d].token = req[c].token /\ req[d].key = req[c].key
       /\ Commits(tx[c].err) /\ tx[c].write # {}
    THEN IF req[c].version = req[d].version
         THEN [race[d] EXCEPT !.same = IF @ = 0 THEN 1 ELSE 2]
         ELSE [race[d] EXCEPT !.other = TRUE]
    ELSE race[d]

\* History: the write client c commits dirties the session of every other
\* client that looked its key up and has not finished the write it went on
\* with.
Since(c, d) ==
    IF /\ d # c /\ session[d] = "clean"
       /\ ~(pc[d] = "done" /\ req[d].op = "PostValue")
       /\ req[d].token = req[c].token /\ req[d].key = req[c].key
       /\ Commits(tx[c].err) /\ tx[c].write # {}
    THEN "dirty"
    ELSE session[d]

\* The end of KVStore.Put and the rest of API.PostValue.
PutEnd(c) ==
    /\ pc[c] = "executed"
    /\ req[c].op = "PostValue"
    /\ kv_data' = AfterTx(kv_data, c)
    /\ lock' = [lock EXCEPT ![<<req[c].token, req[c].key>>] = NoClient]
    /\ race' = [d \in Clients |-> Noted(c, d)]
    /\ succeeded' = IF tx[c].err = NilErr
                    THEN succeeded \cup {<<req[c].token, req[c].key>>}
                    ELSE succeeded
    /\ session' = [d \in Clients |-> Since(c, d)]
    /\ LET err == WithMessage(tx[c].err, "store in database")
       IN  Respond(c, ResultValues(tx[c].updatedVersion, NoPayload), err,
                   StatusOf(err), DefaultCache, NoLocation)
    /\ UNCHANGED <<req, tx>>

\* tx.Get of KVStore.Get: the SELECT sees the committed table.
GetExec(c) ==
    LET r == req[c]
        rows == SelectRow(kv_data, r.token, r.key)
    IN  /\ pc[c] = "begun"
        /\ r.op \in {"GetValueVersion", "GetValue"}
        /\ tx' = [tx EXCEPT ![c] =
                    IF rows = {}
                    THEN [NoTx EXCEPT !.err = ErrNoRows]
                    ELSE [NoTx EXCEPT
                            !.value = (CHOOSE row \in rows : TRUE).payload,
                            !.version = (CHOOSE row \in rows : TRUE).version]]
        /\ pc' = [pc EXCEPT ![c] = "executed"]
        /\ session' = [session EXCEPT ![c] =
                        IF rows = {} THEN NoSession ELSE "clean"]
        /\ UNCHANGED <<kv_data, lock, req, resp, race, succeeded>>

\* What KVStore.Get returns once its transaction ended.
GetErr(c) == IF tx[c].err = ErrNoRows THEN ErrNoSuchKey ELSE tx[c].err
\* Mutant of GetValueOut: the value column is not scanned into the result.
GetValueOut_Empty(c) == NoPayload

GetValueOut(c) == IF tx[c].err = ErrNoRows THEN NoPayload ELSE tx[c].value
GetVersionOut(c) == IF tx[c].err = ErrNoRows THEN 0 ELSE tx[c].version

\* Mutant of GetValueVersionEnd: the Cache-Control header is set before the
\* version is compared.
GetValueVersionEnd_HeaderFirst(c) ==
    /\ pc[c] = "executed"
    /\ req[c].op = "GetValueVersion"
    /\ IF GetErr(c) # NilErr
       THEN LET err == WithMessage(GetErr(c), "getting value")
            IN  Respond(c, NilResult, err, StatusOf(err), DefaultCache, NoLocation)
       ELSE IF GetVersionOut(c) # req[c].version
       THEN LET err == WithMessage(GetErr(c), "version mismatch")
            IN  Respond(c, NilResult, err, StatusOf(err), ImmutableCache, NoLocation)
       ELSE Respond(c, ResultValues(GetVersionOut(c), GetValueOut(c)), GetErr(c),
                    StatusOf(GetErr(c)), ImmutableCache, NoLocation)
    /\ UNCHANGED <<kv_data, lock, req, tx, race, succeeded, session>>

\* The end of KVStore.Get and the rest of API.GetValueVersion.
GetValueVersionEnd(c) ==
    /\ pc[c] = "executed"
    /\ req[c].op = "GetValueVersion"
    /\ IF GetErr(c) # NilErr
       THEN LET err == WithMessage(GetErr(c), "getting value")
            IN  Respond(c, NilResult, err, StatusOf(err), DefaultCache, NoLocation)
       ELSE IF GetVersionOut(c) # req[c].version
       THEN LET err == WithMessage(GetErr(c), "version mismatch")
            IN  Respond(c, NilResult, err, StatusOf(err), DefaultCache, NoLocation)
       ELSE Respond(c, ResultValues(GetVersionOut(c), GetValueOut(c)), GetErr(c),
                    StatusOf(GetErr(c)), ImmutableCache, NoLocation)
    /\ UNCHANGED <<kv_data, lock, req, tx, race, succeeded, session>>

\* The end of KVStore.Get and the rest of API.GetValue: the redirect.
GetValueEnd(c) ==
    /\ pc[c] = "executed"
    /\ req[c].op = "GetValue"
    /\ IF GetErr(c) # NilErr
       THEN LET err == WithMessage(GetErr(c), "getting value")
            IN  Respond(c, NilResult, err, StatusOf(err), DefaultCache, NoLocation)
       ELSE Respond(c, NilResult, NilErr, 307, DefaultCache,
                    LocationOf(req[c].token, req[c].key, GetVersionOut(c)))
    /\ UNCHANGED <<kv_data, lock, req, tx, race, succeeded, session>>

Next ==
    \E c \in Clients :
        \/ PostValue(c)
        \/ GetValueVersion(c)
        \/ GetValue(c)
        \/ PutExec(c)
        \/ PutEnd(c)
        \/ GetExec(c)
        \/ GetValueVersionEnd(c)
        \/ GetValueEnd(c)

Spec == Init /\ [][Next]_vars

\* The service under requests of the documented interface only.
NextNat ==
    \E c \in Clients :
        \/ PostValueNat(c)
        \/ GetValueVersion(c)
        \/ GetValue(c)
        \/ PutExec(c)
        \/ PutEnd(c)
        \/ GetExec(c)
        \/ GetValueVersionEnd(c)
        \/ GetValueEnd(c)

SpecNat == Init /\ [][NextNat]_vars

\* The service under writes of every size: bodies of one byte, of exactly
\* maxValueSize bytes and of one byte more, each sent with an unknown
\* declared length (chunked, r.ContentLength = -1), with its own length,
\* with maxValueSize and with maxValueSize + 1.
SizeBodies ==
    {[data |-> "a", len |-> 1],
     [data |-> "m", len |-> maxValueSize],
     [data |-> "x", len |-> maxValueSize + 1]}
SizeLengths(body) == {0 - 1, body.len, maxValueSize, maxValueSize + 1}

PostValueSize(c) ==
    \E token \in Tokens, key \in Keys, version \in NatVersions, body \in SizeBodies :
        \E contentLength \in SizeLengths(body) :
            PostValueOf(c, token, key, version, contentLength, body)

\* The size test of a write looks at nothing but its own request: one
\* client sends them.
SizeClients == {"c1"}

NextSize ==
    \E c \in SizeClients :
        \/ PostValueSize(c)
        \/ PutExec(c)
        \/ PutEnd(c)

SpecSize == Init /\ [][NextSize]_vars


\* The request a redirect leads to.  The path of a request target ends
\* before its first "?" or "#" (the server hands r.URL.Path to the router).
PathOf(target) ==
    LET stops == {i \in 1..Len(target) : target[i] \in {"?", "#"}}
    IN  IF stops = {} THEN target
        ELSE SubSeq(target, 1, (CHOOSE i \in stops : \A j \in stops : i <= j) - 1)

\* The path parameters as the router and the mapper read them.
KeyOf(chars) ==
    IF \E key \in AllKeys : KeyChars(key) = chars
    THEN CHOOSE key \in AllKeys : KeyChars(key) = chars
    ELSE ""
VersionOf(digits) ==
    IF \E version \in (0 - 1)..(MaxVersion + 1) : ToString(version) = digits
    THEN CHOOSE version \in (0 - 1)..(MaxVersion + 1) : ToString(version) = digits
    ELSE 0

\* The GET routes of RegisterTo matched against a path.
Route(path) ==
    IF Len(path) >= 4 /\ path[1] = "/token/" /\ path[3] = "/key/"
    THEN LET rest == SubSeq(path, 4, Len(path))
         IN  IF Len(rest) >= 3 /\ rest[Len(rest) - 1] = "/version/"
             THEN [op |-> "GetValueVersion", token |-> path[2],
                   key |-> KeyOf(SubSeq(rest, 1, Len(rest) - 2)),
                   version |-> VersionOf(rest[Len(rest)])]
             ELSE [op |-> "GetValue", token |-> path[2],
                   key |-> KeyOf(rest), version |-> 0]
    ELSE [op |-> "none", token |-> NilToken, key |-> "", version |-> 0]

Target(location) == Route(PathOf(location))

\* The service under a client that writes records, asks for the latest
\* version of one and follows every redirect it is answered with.  The keys
\* are an ordinary one and one with a character that is reserved in a URL
\* (sent percent-encoded, r.URL.Path holds it decoded).
RedirectClients == {"c1"}
RedirectKeys == {"k1", "k?"}

PostValueRedirect(c) ==
    /\ resp[c].status # 307
    /\ \E token \in Tokens, key \in RedirectKeys, version \in NatVersions,
          body \in Bodies :
            PostValueOf(c, token, key, version, body.len, body)

GetValueRedirect(c) ==
    /\ resp[c].status # 307
    /\ \E token \in Tokens, key \in RedirectKeys : GetValueOf(c, token, key)

FollowRedirect(c) ==
    /\ pc[c] = "done"
    /\ resp[c].status = 307
    /\ LET to == Target(resp[c].location)
       IN  CASE to.op = "GetValueVersion" ->
                    GetValueVersionOf(c, to.token, to.key, to.version)
             [] to.op = "GetValue" -> GetValueOf(c, to.token, to.key)
             [] OTHER -> FALSE

NextRedirect ==
    \E c \in RedirectClients :
        \/ PostValueRedirect(c)
        \/ GetValueRedirect(c)
        \/ FollowRedirect(c)
        \/ PutExec(c)
        \/ PutEnd(c)
        \/ GetExec(c)
        \/ GetValueVersionEnd(c)
        \/ GetValueEnd(c)

SpecRedirect == Init /\ [][NextRedirect]_vars


\* The service under requests on two tenants with two keys each.
FrameClients == {"c1"}
FrameKeys == {"k1", "k2"}

PostValueFrame(c) ==
    \E token \in AllTokens, key \in FrameKeys, version \in NatVersions,
       body \in Bodies :
        PostValueOf(c, token, key, version, body.len, body)

GetValueVersionFrame(c) ==
    \E token \in AllTokens, key \in FrameKeys, version \in ReadVersions :
        GetValueVersionOf(c, token, key, version)

GetValueFrame(c) ==
    \E token \in AllTokens, key \in FrameKeys : GetValueOf(c, token, key)

NextFrame ==
    \E c \in FrameClients :
        \/ PostValueFrame(c)
        \/ GetValueVersionFrame(c)
        \/ GetValueFrame(c)
        \/ PutExec(c)
        \/ PutEnd(c)
        \/ GetExec(c)
        \/ GetValueVersionEnd(c)
        \/ GetValueEnd(c)

SpecFrame == Init /\ [][NextFrame]_vars


\* Clients that each apply one update to the same existing record by
\* looping: ask for the current version, write expecting it, on
\* VersionConflict start over.  The record is the one a first write left.
SeedRows == {Excluded("t1", "k1", [data |-> "s", len |-> 1], 0)}

InitRetry ==
    /\ kv_data = SeedRows
    /\ lock = [r \in AllTokens \X AllKeys |-> NoClient]
    /\ pc = [c \in Clients |-> "idle"]
    /\ req = [c \in Clients |-> NoRequest]
    /\ tx = [c \in Clients |-> NoTx]
    /\ resp = [c \in Clients |-> NoResp]
    /\ race = [c \in Clients |-> NoRace]
    /\ succeeded = {<<row.token, row.key>> : row \in SeedRows}
    /\ session = [c \in Clients |-> NoSession]

\* The client asks for the current version: at first, and again after a
\* write of its own that was answered VersionConflict.
RetryGet(c) ==
    /\ \/ pc[c] = "idle"
       \/ pc[c] = "done" /\ req[c].op = "PostValue"
                         /\ resp[c].err.cause = "ErrVersionConflict"
    /\ \E row \in SeedRows : GetValueOf(c, row.token, row.key)

\* The client writes its update expecting the version it was redirected to.
RetryPut(c) ==
    /\ pc[c] = "done" /\ req[c].op = "GetValue" /\ resp[c].status = 307
    /\ \E body \in Bodies :
          PostValueOf(c, req[c].token, req[c].key, Learnt(c), body.len, body)

RetryStep(c) ==
    \/ RetryGet(c)
    \/ RetryPut(c)
    \/ PutExec(c)
    \/ PutEnd(c)
    \/ GetExec(c)
    \/ GetValueEnd(c)

NextRetry == \E c \in Clients : RetryStep(c)

SpecRetry == InitRetry /\ [][NextRetry]_vars

\* Every request is served on a goroutine of its own and the database hands
\* a released row lock to a waiting statement: a client whose next step
\* stays possible takes it.
SpecRetryFair == SpecRetry /\ \A c \in Clients : WF_vars(RetryStep(c))


\* ------------------------------------------------------------ properties
\* The stored row of the key of client c's request, before and after a step.
Was(c) == SelectRow(kv_data, req[c].token, req[c].key)
Becomes(c) == SelectRow(kv_data', req[c].token, req[c].key)

\* A step in which the write of client c ends and is answered.
PutEnds(c) ==
    pc[c] = "executed" /\ pc'[c] = "done" /\ req[c].op = "PostValue"

\* The answers of a write.
Succeeded(r, version) ==
    r.err = NilErr /\ r.result = ResultValues(version, NoPayload)
Conflicted(r) ==
    r.err.cause = "ErrVersionConflict" /\ r.status = 409

\* The row a write of client c leaves when it succeeds.
Mine(c) ==
    [token |-> req[c].token, key |-> req[c].key,
     version |-> req[c].version + 1, payload |-> req[c].payload]

\* A write that raced on the version it expected with nothing but writes
\* expecting the same version.
Racing(c) ==
    req[c].op = "PostValue" /\ race[c].fresh /\ ~race[c].other

\* C1: when writes that all expect the stored version v >= 1 of a record race
\* on it, exactly one of them succeeds and returns v+1, every other one gets
\* VersionConflict, and the record is left with the payload of the winner.
C1_RaceOnUpdate ==
    [][\A c \in Clients :
        (PutEnds(c) /\ Racing(c) /\ req[c].version >= 1) =>
            IF race[c].same = 0
            THEN /\ Succeeded(resp'[c], req[c].version + 1)
                 /\ Becomes(c) = {Mine(c)}
            ELSE /\ race[c].same = 1
                 /\ Conflicted(resp'[c])
                 /\ kv_data' = kv_data
                 /\ \A row \in Was(c) : row.version = req[c].version + 1]_vars

\* Two writes raced on version v >= 1: one won, the other lost, and the
\* record holds the winner's payload.
C1_Witness ==
    \E c, d \in Clients :
        /\ c # d /\ pc[c] = "done" /\ pc[d] = "done"
        /\ Racing(c) /\ Racing(d)
        /\ req[c].version >= 1 /\ req[d].version = req[c].version
        /\ req[d].key = req[c].key /\ req[d].token = req[c].token
        /\ req[d].payload # req[c].payload
        /\ race[c].same = 0 /\ race[d].same = 1
        /\ Succeeded(resp[c], req[c].version + 1)
        /\ Conflicted(resp[d])
        /\ Was(c) = {Mine(c)}

\* C2: when writes that expect version 0 race on a key without a record, a
\* write that finds the record created by another one gets VersionConflict
\* and leaves the creator's payload in place.
C2_RaceOnCreate ==
    [][\A c \in Clients :
        (PutEnds(c) /\ Racing(c) /\ req[c].version = 0 /\ race[c].same >= 1) =>
            /\ Conflicted(resp'[c])
            /\ kv_data' = kv_data]_vars

\* The stored version of a key, 0 when it has no record.
StoredVersion(rows) ==
    IF rows = {} THEN 0 ELSE (CHOOSE row \in rows : TRUE).version

\* C3: the stored version of a key never decreases, and a successful write
\* returns and stores the previous stored version plus one (1 when there was
\* no record).
C3_MonotonicVersions ==
    [][\A c \in Clients :
        /\ StoredVersion(Becomes(c)) >= StoredVersion(Was(c))
        /\ (PutEnds(c) /\ resp'[c].err = NilErr) =>
              /\ resp'[c].result.version = StoredVersion(Was(c)) + 1
              /\ StoredVersion(Becomes(c)) = StoredVersion(Was(c)) + 1]_vars

C5_NoCreateOnNonzero ==
    [][\A c \in Clients :
        (PutEnds(c) /\ req[c].version # 0 /\ Was(c) = {}) =>
            /\ Conflicted(resp'[c])
            /\ Becomes(c) = {}]_vars

\* A pinned read answered with a payload.
PinnedPayload(c) ==
    /\ pc[c] = "done"
    /\ req[c].op = "GetValueVersion"
    /\ resp[c].err = NilErr
    /\ ~resp[c].result.nil

\* C6: two pinned reads of the same key at the same version that return a
\* payload return the same payload.
C6_PinnedReadsImmutable ==
    \A c, d \in Clients :
        (/\ PinnedPayload(c) /\ PinnedPayload(d)
         /\ req[c].token = req[d].token /\ req[c].key = req[d].key
         /\ req[c].version = req[d].version)
        => resp[c].result.value = resp[d].result.value

\* C7: a pinned read that finds a record at another version than the one
\* requested is answered with an error.
C7_MismatchIsAnError ==
    \A c \in Clients :
        (/\ pc[c] = "done"
         /\ req[c].op = "GetValueVersion"
         /\ ValidRequest(req[c])
         /\ tx[c].err = NilErr
         /\ tx[c].version # req[c].version)
        => resp[c].err # NilErr

\* C8: a write expecting the stored version v >= 1 of a record succeeds,
\* returns v+1 and leaves the record at version v+1 with its payload.
C8_UpdateSucceeds ==
    [][\A c \in Clients :
        (/\ PutEnds(c) /\ req[c].version >= 1
         /\ \E row \in Was(c) : row.version = req[c].version) =>
            /\ Succeeded(resp'[c], req[c].version + 1)
            /\ Becomes(c) = {Mine(c)}]_vars

\* A write that found its expected version v >= 1 was answered v+1 and its
\* payload is the stored one.
C8_Witness ==
    \E c \in Clients :
        /\ pc[c] = "done" /\ Racing(c) /\ race[c].same = 0
        /\ req[c].version >= 1
        /\ Succeeded(resp[c], req[c].version + 1)
        /\ Was(c) = {Mine(c)}

\* C9: a write expecting version 0 on a key without a record succeeds,
\* returns 1 and leaves a record at version 1 with its payload.
C9_CreateSucceeds ==
    [][\A c \in Clients :
        (PutEnds(c) /\ req[c].version = 0 /\ Was(c) = {}) =>
            /\ Succeeded(resp'[c], 1)
            /\ Becomes(c) = {Mine(c)}
            /\ Mine(c).version = 1]_vars

\* A write created the record of a key: it was answered 1 and the record
\* is at version 1 with its payload.
C9_Witness ==
    \E c \in Clients :
        /\ pc[c] = "done" /\ Racing(c) /\ race[c].same = 0
        /\ req[c].version = 0
        /\ Succeeded(resp[c], 1)
        /\ Was(c) = {Mine(c)}

\* C10: a write expecting a nonzero version other than the stored one of a
\* record gets VersionConflict and leaves the record as it was.
C10_StaleConflict ==
    [][\A c \in Clients :
        (/\ PutEnds(c) /\ req[c].version # 0
         /\ \E row \in Was(c) : row.version # req[c].version) =>
            /\ Conflicted(resp'[c])
            /\ kv_data' = kv_data]_vars

\* A write expecting a stale nonzero version was answered VersionConflict
\* and the record is at another version with another payload.
C10_Witness ==
    \E c \in Clients :
        /\ pc[c] = "done" /\ req[c].op = "PostValue"
        /\ req[c].version # 0 /\ ~race[c].fresh
        /\ Conflicted(resp[c])
        /\ \E row \in Was(c) :
              row.version # req[c].version /\ row.payload # req[c].payload

\* A write of client c succeeded and the record is still the one it left.
Written(c) ==
    /\ pc[c] = "done" /\ req[c].op = "PostValue"
    /\ resp[c].err = NilErr /\ ~resp[c].result.nil
    /\ Was(c) = {Mine(c)}

\* Client d looked the key of client c's request up with KVStore.Get and no
\* write was committed to the key since.
LookedUp(c, d) ==
    /\ d # c
    /\ req[d].op \in {"GetValue", "GetValueVersion"}
    /\ pc[d] \in {"executed", "done"}
    /\ req[d].token = req[c].token /\ req[d].key = req[c].key
    /\ session[d] = "clean"

\* C11: after a Put on a key succeeded returning version v with payload p,
\* and before any other successful Put on the key, Get returns exactly
\* (p, v) and the pinned read at v is answered with p.
C11_ReadAfterWrite ==
    \A c, d \in Clients :
        (Written(c) /\ LookedUp(c, d)) =>
            /\ GetErr(d) = NilErr
            /\ GetValueOut(d) = req[c].payload
            /\ GetVersionOut(d) = resp[c].result.version
            /\ (/\ pc[d] = "done" /\ req[d].op = "GetValueVersion"
                /\ req[d].version = resp[c].result.version) =>
                    /\ resp[d].err = NilErr
                    /\ resp[d].result =
                          ResultValues(resp[c].result.version, req[c].payload)

\* A write succeeded and the pinned read at the version it returned, begun
\* after it, was answered with its payload.
C11_Witness ==
    \E c, d \in Clients :
        /\ Written(c) /\ LookedUp(c, d)
        /\ pc[d] = "done" /\ req[d].op = "GetValueVersion"
        /\ req[d].version = resp[c].result.version
        /\ resp[d].result.value = req[c].payload
        /\ resp[d].status = 200

\* Steps in which the SELECT of client c's KVStore.Get runs, and in which its
\* read ends and is answered.
Looks(c) ==
    /\ pc[c] = "begun" /\ pc'[c] = "executed"
    /\ req[c].op \in {"GetValue", "GetValueVersion"}
GetEnds(c) ==
    /\ pc[c] = "executed" /\ pc'[c] = "done"
    /\ req[c].op \in {"GetValue", "GetValueVersion"}

\* C12: Get on a key fails with NotFound if and only if no Put on the key
\* has succeeded before its lookup: records are never deleted, so once a Put
\* on a key has succeeded every later Get on it returns a payload and a
\* version; and the handlers answer NotFound exactly when Get fails so.
C12_NotFoundIffNeverPut ==
    [][\A c \in Clients :
        /\ Looks(c) =>
              /\ GetErr(c)' = ErrNoSuchKey
                    <=> <<req[c].token, req[c].key>> \notin succeeded
              /\ <<req[c].token, req[c].key>> \in succeeded =>
                    /\ GetErr(c)' = NilErr
                    /\ Was(c) = {[token |-> req[c].token, key |-> req[c].key,
                                  version |-> GetVersionOut(c)',
                                  payload |-> GetValueOut(c)']}
        /\ GetEnds(c) =>
              (resp'[c].status = 404 <=> GetErr(c) = ErrNoSuchKey)]_vars

\* A read of a key was answered NotFound before any Put on it succeeded, and
\* a read after the first successful Put found the record.
C12_Witness ==
    \E c, d \in Clients :
        /\ c # d /\ pc[c] = "done" /\ pc[d] = "done"
        /\ req[c].op = "GetValue" /\ req[d].op = "GetValue"
        /\ req[c].token = req[d].token /\ req[c].key = req[d].key
        /\ resp[c].status = 404 /\ resp[c].err.cause = "ErrNoSuchKey"
        /\ <<req[d].token, req[d].key>> \in succeeded
        /\ resp[d].status = 307 /\ GetErr(d) = NilErr

\* C13: every stored record's payload is at most maxValueSize bytes,
\* whatever the declared length (unknown included) and the actual length of
\* the body of the writes.
C13_PayloadBound ==
    \A row \in kv_data : row.payload.len <= maxValueSize

\* A step in which a request of client c arrives.
Arrives(c) ==
    /\ pc[c] \in {"idle", "done"}
    /\ <<pc[c], req[c], resp[c]>>' # <<pc[c], req[c], resp[c]>>

\* C14: a write whose declared length exceeds maxValueSize is answered
\* ValueTooLarge without its body being read and without Put being called,
\* the store unchanged; a write whose declared length is exactly
\* maxValueSize is not rejected for its size.
C14_OversizeRejected ==
    [][\A c \in Clients :
        (Arrives(c) /\ req'[c].op = "PostValue" /\ ValidRequest(req'[c])) =>
            /\ req'[c].contentLength > maxValueSize =>
                  /\ pc'[c] = "done"
                  /\ resp'[c].err = ErrValueTooLarge
                  /\ resp'[c].status = 413
                  /\ req'[c].payload = NoPayload
                  /\ tx'[c] = NoTx
                  /\ kv_data' = kv_data /\ lock' = lock
            /\ req'[c].contentLength = maxValueSize =>
                  /\ resp'[c].err # ErrValueTooLarge
                  /\ req'[c].body.len = maxValueSize =>
                        /\ pc'[c] = "begun"
                        /\ req'[c].payload = req'[c].body]_vars

\* A write declared one byte too long was answered ValueTooLarge; the record
\* it was sent for holds the maxValueSize bytes of an earlier write.
C14_Witness ==
    \E c \in Clients :
        /\ pc[c] = "done" /\ req[c].op = "PostValue"
        /\ req[c].contentLength = maxValueSize + 1
        /\ resp[c].err = ErrValueTooLarge /\ tx[c] = NoTx
        /\ \E row \in kv_data :
              /\ row.token = req[c].token /\ row.key = req[c].key
              /\ row.payload.len = maxValueSize /\ row.version = MaxVersion

\* C15: every stored record has a version >= 1 whatever the version segment
\* of the writes, and a write whose version segment is negative is rejected
\* as a validation failure before any store call.
C15_PositiveVersions ==
    /\ \A row \in kv_data : row.version >= 1
    /\ \A c \in Clients :
          (req[c].op = "PostValue" /\ req[c].version < 0) =>
              /\ pc[c] = "done"
              /\ resp[c].err = ErrBadRequest
              /\ tx[c] = NoTx

\* C16: for an existing record ReadLatest answers with a temporary redirect
\* whose target names the same tenant and key and the version stored at the
\* moment of the lookup, for an absent record it answers NotFound with no
\* redirect; the request that follows the redirect, no write in between, is
\* answered with the stored payload marked immutable.
C16_Redirect ==
    [][\A c \in RedirectClients :
        /\ (Looks(c) /\ Was(c) # {}) =>
              GetVersionOut(c)' = StoredVersion(Was(c))
        /\ (GetEnds(c) /\ req[c].op = "GetValue") =>
              IF GetErr(c) = NilErr
              THEN /\ resp'[c].status = 307
                   /\ Target(resp'[c].location) =
                         [op |-> "GetValueVersion", token |-> req[c].token,
                          key |-> req[c].key, version |-> GetVersionOut(c)]
              ELSE /\ resp'[c].status = 404
                   /\ resp'[c].location = NoLocation
        /\ (Arrives(c) /\ resp[c].status = 307) =>
              /\ req'[c].op = "GetValueVersion"
              /\ req'[c].token = req[c].token /\ req'[c].key = req[c].key
              /\ req'[c].version = StoredVersion(Was(c))
        /\ (GetEnds(c) /\ req[c].op = "GetValueVersion") =>
              /\ resp'[c].status = 200
              /\ resp'[c].cache = ImmutableCache
              /\ Was(c) = {[token |-> req[c].token, key |-> req[c].key,
                            version |-> resp'[c].result.version,
                            payload |-> resp'[c].result.value]}]_vars

\* The rows of a (token, key) pair in a table.
RowsOf(table, token, key) ==
    {row \in table : row.token = token /\ row.key = key}

\* C17: a Put on a (token, key) pair, whether it succeeds or fails, leaves
\* the version and payload of every other pair unchanged, and what Get and
\* the pinned read on a pair return depends only on the record of that pair.
C17_KeyIsolation ==
    [][\A c \in Clients :
        /\ PutEnds(c) =>
              \A token \in AllTokens, key \in AllKeys :
                  <<token, key>> # <<req[c].token, req[c].key>> =>
                      RowsOf(kv_data', token, key) = RowsOf(kv_data, token, key)
        /\ Looks(c) =>
              LET rows == RowsOf(kv_data, req[c].token, req[c].key)
              IN  IF rows = {}
                  THEN GetErr(c)' = ErrNoSuchKey
                  ELSE /\ GetErr(c)' = NilErr
                       /\ rows = {[token |-> req[c].token, key |-> req[c].key,
                                   version |-> GetVersionOut(c)',
                                   payload |-> GetValueOut(c)']}
        /\ (GetEnds(c) /\ req[c].op = "GetValueVersion"
                       /\ ~resp'[c].result.nil) =>
              RowsOf(kv_data, req[c].token, req[c].key)
                  \subseteq {[token |-> req[c].token, key |-> req[c].key,
                              version |-> tx[c].version,
                              payload |-> resp'[c].result.value]}]_vars

\* A write succeeded on one key of a tenant while another key of the tenant
\* and the same key of another tenant hold records with another payload, and
\* a write on it failed in such a state.
C17_Witness ==
    \E c \in Clients :
        /\ pc[c] = "done" /\ req[c].op = "PostValue"
        /\ Conflicted(resp[c])
        /\ Was(c) # {}
        /\ \E row \in kv_data :
              /\ row.token = req[c].token /\ row.key # req[c].key
              /\ row.payload # req[c].payload /\ row.version = MaxVersion
        /\ \E row \in kv_data :
              /\ row.token # req[c].token /\ row.key = req[c].key
              /\ row.payload # req[c].payload

\* A pinned read answered with the payload of a record whose version at the
\* lookup was the requested one.
PinnedHit(c) ==
    /\ PinnedPayload(c)
    /\ tx[c].err = NilErr
    /\ tx[c].version = req[c].version
    /\ resp[c].result = ResultValues(tx[c].version, tx[c].value)

\* C18: a response is marked immutable only if it is a pinned read that
\* returns the payload of a record whose version equals the requested one;
\* every other response (redirect, NotFound, version mismatch, validation
\* failure, the answer to a write) carries "no-cache, private".
C18_CacheMarking ==
    \A c \in Clients :
        pc[c] = "done" =>
            /\ resp[c].cache = ImmutableCache => PinnedHit(c)
            /\ ~PinnedHit(c) => resp[c].cache = DefaultCache

\* A pinned read was answered with a payload marked immutable, and a pinned
\* read at another version than the stored one was answered unmarked.
C18_Witness ==
    \E c, d \in Clients :
        /\ PinnedHit(c) /\ resp[c].cache = ImmutableCache
        /\ pc[d] = "done" /\ req[d].op = "GetValueVersion"
        /\ tx[d].err = NilErr /\ tx[d].version # req[d].version
        /\ resp[d].cache = DefaultCache

\* C19: a Put of a client that expects the version v >= 1 it has read with
\* Get returns VersionConflict only if another Put on the key succeeded
\* between its Get and its Put; with no such write it succeeds.
C19_NoSpuriousConflict ==
    [][\A c \in Clients :
        (PutEnds(c) /\ session[c] # NoSession) =>
            /\ Conflicted(resp'[c]) => session[c] = "dirty"
            /\ session[c] = "clean" =>
                  /\ Succeeded(resp'[c], req[c].version + 1)
                  /\ Becomes(c) = {Mine(c)}]_vars

\* Two clients read the same version of a record and wrote expecting it: the
\* one with no write since its read succeeded, the other one, the first
\* one's write in between, got VersionConflict.
C19_Witness ==
    \E c, d \in Clients :
        /\ c # d /\ pc[c] = "done" /\ pc[d] = "done"
        /\ req[c].op = "PostValue" /\ req[d].op = "PostValue"
        /\ req[c].token = req[d].token /\ req[c].key = req[d].key
        /\ req[c].version = req[d].version
        /\ session[c] = "clean" /\ Succeeded(resp[c], req[c].version + 1)
        /\ session[d] = "dirty" /\ Conflicted(resp[d])

\* The update of client c has been applied: its write succeeded.
Applied(c) ==
    /\ pc[c] = "done" /\ req[c].op = "PostValue"
    /\ resp[c].err = NilErr /\ ~resp[c].result.nil

\* Every client's update has been applied and the record is at its initial
\* version plus the number of clients.
AllApplied ==
    /\ \A c \in Clients : Applied(c)
    /\ \A seed \in SeedRows :
          StoredVersion(SelectRow(kv_data, seed.token, seed.key))
              = seed.version + Cardinality(Clients)

\* C20: clients that each loop "Get the version, Put expecting it, repeat on
\* VersionConflict" on the same existing record all succeed eventually under
\* weak fairness, and the record ends at its initial version plus the number
\* of clients.
C20_RetryProgress == <>[]AllApplied

\* Every client's update is applied: one write expected the initial version,
\* another one the version the first one left.
C20_Witness ==
    /\ AllApplied
    /\ \E c, d \in Clients :
          \A seed \in SeedRows :
              /\ req[c].version = seed.version
              /\ req[d].version = seed.version + 1
              /\ resp[d].result.version = seed.version + Cardinality(Clients)

====
